---------------------------- MODULE Spec2Model ----------------------------
(***************************************************************************)
(* Kernel resolution and execution cache of aiter:                         *)
(*   - the shape dispatcher of gemm_a8w8 (exact lookup, padded lookup,     *)
(*     heuristic ladder), csrc/ck_gemm_a8w8/gemm_a8w8.cu;                  *)
(*   - the identifier cache (get_default_func_name) and the artifact cache *)
(*     (run_lib, SharedLibrary, not_built) of the JIT header.              *)
(* The specifications share the variables: SpecDispatch drives the shape   *)
(* dispatcher, SpecNames the identifier cache, SpecLibs the artifact       *)
(* cache, each call one atomic step; SpecRoot, SpecThreads and SpecCalls   *)
(* run the calls of two threads statement by statement.  A specification   *)
(* leaves the other parts' variables unchanged.                            *)
(***************************************************************************)
EXTENDS Integers, Sequences, FiniteSets, TLC

VARIABLES
    lookup,          \* rowwise_dispatch's static RowwiseKernelMap: (M,N,K) -> kernel
    shape,           \* the (M, N, K) of the dispatch call made, or NoShape
    selected,        \* what rowwise_dispatch returned for it
    env,             \* the process environment (getenv)
    func_names,      \* the identifier LRU cache (unique_ptr: NullPtr before init)
    names_returned,  \* history: canonical string -> the identifiers returned for it
    names_last,      \* the last get_default_func_name call and what it returned
    aiter_root_dir,  \* the static build root, NoRoot before init_root_dir ran
    fs,              \* the filesystem: path of a lib.so -> the artifact there
    libs,            \* the artifact LRU cache (unique_ptr: NullPtr before init)
    heap,            \* the SharedLibrary objects constructed so far
    recency,         \* history: the cached identifiers, least recently accessed first
    last,            \* the last run_lib / not_built call and its outcome
    pc,              \* caller thread -> where it stands in the call it is making
    frame,           \* caller thread -> the locals of that call and how the last ended
    init_root_dir_flag,  \* the once_flag of init_root_dir: idle, active or done
    root_inits,      \* history: how many times the body of init_root_dir was run
    process          \* running, terminated (abnormally) or exited

dispatchVars == <<lookup, shape, selected>>
namesVars    == <<func_names, names_returned, names_last>>
libsVars     == <<aiter_root_dir, fs, libs, heap, recency, last>>
threadVars   == <<pc, frame, init_root_dir_flag, root_inits, process>>
vars         == <<lookup, shape, selected, env, func_names, names_returned, names_last,
                  aiter_root_dir, fs, libs, heap, recency, last,
                  pc, frame, init_root_dir_flag, root_inits, process>>

RECURSIVE Pow2(_)
Pow2(n) == IF n <= 0 THEN 1 ELSE 2 * Pow2(n - 1)

(***************************************************************************)
(*                       gemm_a8w8: shape dispatch                         *)
(***************************************************************************)

\* How far around each threshold of the code the sampled dimensions reach.
Delta == 1

Near(ts) == {v \in UNION {(t - Delta)..(t + Delta) : t \in ts} : v >= 1}

\* Sampled dimensions: the thresholds the code compares M, N and K with, the
\* values around them, and the spec's examples (5, 300, 18000).
MValues == Near({1, 16, 64, 1024, 16384, 20480}) \cup {5, 300, 512, 18000}
NValues == Near({1024, 2048})
KValues == Near({512, 1024, 2048})

NoShape  == <<0, 0, 0>>
NoKernel == "none"

\* The kernels the heuristic ladder returns, by branch (1..10, top to bottom).
BranchKernel(b) ==
    CASE b = 1  -> "a8w8_rowwise_256x256x128x64_32x32_4x2_4x64x1_4x64x1_1x32x1x8_8x8x1_1x1_interwave_v1"
      [] b = 2  -> "a8w8_rowwise_64x16x16x128_16x16_1x1_8x8x1_8x8x1_1x16x1x4_4x4x1_1x1_interwave_v2"
      [] b = 3  -> "a8w8_rowwise_128x16x32x128_16x16_1x1_8x16x1_8x16x1_1x16x1x8_4x4x1_1x1_intrawave_v2"
      [] b = 4  -> "a8w8_rowwise_128x32x16x128_16x16_1x1_8x16x1_8x16x1_1x16x1x8_2x2x1_1x1_interwave_v2"
      [] b = 5  -> "a8w8_rowwise_64x16x16x256_16x16_1x1_16x4x1_16x4x1_1x16x1x4_4x4x1_1x1_intrawave_v1"
      [] b = 6  -> "a8w8_rowwise_64x16x16x128_16x16_1x1_8x8x1_8x8x1_1x16x1x4_4x4x1_1x1_interwave_v2"
      [] b = 7  -> "a8w8_rowwise_256x128x128x128_32x32_2x2_8x32x1_8x32x1_1x32x1x8_8x8x1_1x1_interwave_v1"
      [] b = 8  -> "a8w8_rowwise_256x128x128x128_32x32_2x2_8x32x1_8x32x1_1x32x1x8_8x8x1_1x1_intrawave_v3"
      [] b = 9  -> "a8w8_rowwise_256x256x128x64_32x32_4x2_4x64x1_4x64x1_1x32x1x8_8x8x1_1x1_interwave_v1"
      [] b = 10 -> "a8w8_rowwise_256x224x256x128_16x16_7x8_8x32x1_8x32x1_1x32x1x8_8x8x1_1x2_intrawave_v3"
      [] OTHER  -> NoKernel

\* The guards with the large small-batch guard (branch 5) made inclusive:
\* N >= 2048 and K >= 2048.
GuardInclusive(b, M, N, K) ==
    CASE b = 1 -> K < 512
      [] b = 2 -> M < 64 /\ N < 2048 /\ K < 2048
      [] b = 3 -> M < 64 /\ K < 2048
      [] b = 4 -> M < 64 /\ N < 2048
      [] b = 5 -> M < 64 /\ N >= 2048 /\ K >= 2048
      [] b = 6 -> M < 64
      [] b = 7 -> K < 1024
      [] b = 8 -> M < 1024
      [] b = 9 -> M >= 1024 /\ N >= 1024 /\ K >= 1024
      [] OTHER -> FALSE

\* The guard of branch b of the ladder, as written in the source (the final
\* else, branch 10, has none).
Guard(b, M, N, K) ==
    CASE b = 1 -> K < 512
      [] b = 2 -> M < 64 /\ N < 2048 /\ K < 2048
      [] b = 3 -> M < 64 /\ K < 2048
      [] b = 4 -> M < 64 /\ N < 2048
      [] b = 5 -> M < 64 /\ N > 2048 /\ K > 2048
      [] b = 6 -> M < 64
      [] b = 7 -> K < 1024
      [] b = 8 -> M < 1024
      [] b = 9 -> M >= 1024 /\ N >= 1024 /\ K >= 1024
      [] OTHER -> FALSE

\* A ladder that tests the generic small-batch guard (M < 64) before the
\* specific small-batch guards.
HeuristicBranchReordered(M, N, K) ==
    IF Guard(1, M, N, K) THEN 1
    ELSE IF Guard(6, M, N, K) THEN 6
    ELSE IF Guard(2, M, N, K) THEN 2
    ELSE IF Guard(3, M, N, K) THEN 3
    ELSE IF Guard(4, M, N, K) THEN 4
    ELSE IF Guard(5, M, N, K) THEN 5
    ELSE IF Guard(7, M, N, K) THEN 7
    ELSE IF Guard(8, M, N, K) THEN 8
    ELSE IF Guard(9, M, N, K) THEN 9
    ELSE 10

\* A ladder whose final else is missing: control falls off the end.
HeuristicBranchNoElse(M, N, K) ==
    IF Guard(1, M, N, K) THEN 1
    ELSE IF Guard(2, M, N, K) THEN 2
    ELSE IF Guard(3, M, N, K) THEN 3
    ELSE IF Guard(4, M, N, K) THEN 4
    ELSE IF Guard(5, M, N, K) THEN 5
    ELSE IF Guard(6, M, N, K) THEN 6
    ELSE IF Guard(7, M, N, K) THEN 7
    ELSE IF Guard(8, M, N, K) THEN 8
    ELSE IF Guard(9, M, N, K) THEN 9
    ELSE 0

\* The if / else-if ladder: the branch taken for (M, N, K).
HeuristicBranch(M, N, K) ==
    IF Guard(1, M, N, K) THEN 1
    ELSE IF Guard(2, M, N, K) THEN 2
    ELSE IF Guard(3, M, N, K) THEN 3
    ELSE IF Guard(4, M, N, K) THEN 4
    ELSE IF Guard(5, M, N, K) THEN 5
    ELSE IF Guard(6, M, N, K) THEN 6
    ELSE IF Guard(7, M, N, K) THEN 7
    ELSE IF Guard(8, M, N, K) THEN 8
    ELSE IF Guard(9, M, N, K) THEN 9
    ELSE 10

rowwise_heuristic_dispatch(M, N, K) == BranchKernel(HeuristicBranch(M, N, K))

\* CHAR_BIT * sizeof(unsigned int)
UIntBits == 32

\* The number of significant bits of x >= 0.
RECURSIVE BitLength(_)
BitLength(x) == IF x = 0 THEN 0 ELSE 1 + BitLength(x \div 2)

\* __builtin_clz on a non-zero 32-bit value: the number of leading zero bits.
builtin_clz(x) == UIntBits - BitLength(x)

\* nextPow2 that forgets the "- 1": a power of two is doubled.
nextPow2NoDecrement(num) ==
    IF num <= 1 THEN 1
    ELSE Pow2(UIntBits - builtin_clz(num))

\* nextPow2: 1 << (32 - clz(num - 1)).  rowwise_dispatch calls it with
\* M <= 16384 only, so the shift count stays below 31 and the int result
\* does not overflow.
nextPow2(num) ==
    IF num <= 1 THEN 1
    ELSE Pow2(UIntBits - builtin_clz(num - 1))

\* The bucketing without its 20480 bucket: 16384 < M <= 20480 falls back to
\* the bucket below.
PaddedMNoTopBucket(M) ==
    IF M > 1 /\ M <= 16 THEN 16
    ELSE IF M <= 16384 THEN nextPow2(M)
    ELSE IF M <= 20480 THEN 16384
    ELSE M

\* The bucketing of M in rowwise_dispatch.
PaddedM(M) ==
    IF M > 1 /\ M <= 16 THEN 16
    ELSE IF M <= 16384 THEN nextPow2(M)
    ELSE IF M <= 20480 THEN 20480
    ELSE M

\* rowwise_dispatch that tries the padded lookup before the exact one.
rowwise_dispatch_padded_first(table, M, N, K) ==
    LET padded_m == PaddedM(M) IN
    IF <<padded_m, N, K>> \in DOMAIN table
    THEN [path |-> "padded", padded_m |-> padded_m, branch |-> 0,
          kernel |-> table[<<padded_m, N, K>>]]
    ELSE IF <<M, N, K>> \in DOMAIN table
    THEN [path |-> "exact", padded_m |-> M, branch |-> 0,
          kernel |-> table[<<M, N, K>>]]
    ELSE [path |-> "heuristic", padded_m |-> padded_m,
          branch |-> HeuristicBranch(M, N, K),
          kernel |-> rowwise_heuristic_dispatch(M, N, K)]

\* rowwise_dispatch: the kernel returned, the path that returned it, the
\* padded_m of the call and the heuristic branch taken (0: none).
rowwise_dispatch(table, M, N, K) ==
    IF <<M, N, K>> \in DOMAIN table
    THEN [path |-> "exact", padded_m |-> M, branch |-> 0,
          kernel |-> table[<<M, N, K>>]]
    ELSE LET padded_m == PaddedM(M) IN
         IF <<padded_m, N, K>> \in DOMAIN table
         THEN [path |-> "padded", padded_m |-> padded_m, branch |-> 0,
               kernel |-> table[<<padded_m, N, K>>]]
         ELSE [path |-> "heuristic", padded_m |-> padded_m,
               branch |-> HeuristicBranch(M, N, K),
               kernel |-> rowwise_heuristic_dispatch(M, N, K)]

\* The lookup table is generated at build time from tuning results.  The
\* tables considered hold any subset of these shapes ...
TableShapes == {<<5, 1024, 1024>>, <<16, 1024, 1024>>,
                <<512, 1024, 1024>>, <<20480, 1024, 1024>>}

\* ... each bound to one of these tuned kernel instances.
TunedKernels == {"a8w8_rowwise_256x16x64x512_16x16_1x1_32x8x1_32x8x1_1x16x1x16_4x4x1_1x1_intrawave_v2",
                 "a8w8_rowwise_256x64x64x256_32x32_1x1_16x16x1_16x16x1_1x32x1x8_8x8x1_1x1_intrawave_v3"}

LookupTables == UNION {[S -> TunedKernels] : S \in SUBSET TableShapes}

NotCalled == [path |-> "none", padded_m |-> 0, branch |-> 0, kernel |-> NoKernel]

\* One call rowwise_dispatch(M, N, K) on the table built at first use.
Dispatch ==
    /\ shape = NoShape
    /\ \E M \in MValues, N \in NValues, K \in KValues :
          /\ shape' = <<M, N, K>>
          /\ selected' = rowwise_dispatch(lookup, M, N, K)
    /\ UNCHANGED <<lookup, env, namesVars, libsVars, threadVars>>

(***************************************************************************)
(*            Environment, strings and the LRU cache (JIT header)          *)
(***************************************************************************)

\* A C string is a sequence of characters; getenv returns NULL (Unset) or one.
Unset    == [set |-> FALSE, value |-> <<>>]
Value(s) == [set |-> TRUE, value |-> s]

Digits == <<"0", "1", "2", "3", "4", "5", "6", "7", "8", "9">>
IsDigit(c) == \E i \in 1..10 : Digits[i] = c
DigitValue(c) == (CHOOSE i \in 1..10 : Digits[i] = c) - 1
IsSpace(c) == c = " "

RECURSIVE SkipSpaces(_)
SkipSpaces(s) == IF s # <<>> /\ IsSpace(Head(s)) THEN SkipSpaces(Tail(s)) ELSE s

RECURSIVE DigitsPrefixValue(_, _)
DigitsPrefixValue(s, acc) ==
    IF s = <<>> \/ ~IsDigit(Head(s)) THEN acc
    ELSE DigitsPrefixValue(Tail(s), 10 * acc + DigitValue(Head(s)))

\* atoi: leading white space, an optional sign, then the longest run of
\* digits; 0 when there is none.  What follows the digits is ignored.
atoi(s) ==
    LET t == SkipSpaces(s) IN
    IF t = <<>> THEN 0
    ELSE IF Head(t) = "-" THEN 0 - DigitsPrefixValue(Tail(t), 0)
    ELSE IF Head(t) = "+" THEN DigitsPrefixValue(Tail(t), 0)
    ELSE DigitsPrefixValue(t, 0)

\* The unique_ptr of a cache before its call_once ran.
NullPtr == [null |-> TRUE, capacity |-> 0, items |-> <<>>]

\* LRUCache<K, V>(capacity): the entries, most recently accessed first.
LRUCache(capacity) == [null |-> FALSE, capacity |-> capacity, items |-> <<>>]

\* A capacity that is not positive (the -1 of an absent override, the 0 atoi
\* gives for a text without digits) disables eviction.
Unbounded(cache) == cache.capacity <= 0

Keys(cache) == {cache.items[i][1] : i \in 1..Len(cache.items)}
IndexOf(cache, key) == CHOOSE i \in 1..Len(cache.items) : cache.items[i][1] = key
Without(items, i) == SubSeq(items, 1, i - 1) \o SubSeq(items, i + 1, Len(items))

\* LRUCache::get: the value of key when present (an empty result otherwise)
\* and the cache after the access, the key moved to the front.
LRUGet(cache, key) ==
    IF key \in Keys(cache)
    THEN LET i == IndexOf(cache, key) IN
         [found |-> TRUE, value |-> <<cache.items[i][2]>>,
          cache |-> [cache EXCEPT !.items = <<cache.items[i]>> \o Without(cache.items, i)]]
    ELSE [found |-> FALSE, value |-> <<>>, cache |-> cache]

\* LRUCache::put: key becomes the most recent entry with the new value; a
\* bounded cache then drops its least recently accessed entries down to
\* capacity.
LRUPut(cache, key, value) ==
    LET rest  == IF key \in Keys(cache) THEN Without(cache.items, IndexOf(cache, key))
                 ELSE cache.items
        items == <<<<key, value>>>> \o rest
    IN  [cache EXCEPT !.items = IF ~Unbounded(cache) /\ Len(items) > cache.capacity
                                THEN SubSeq(items, 1, cache.capacity)
                                ELSE items]

\* init_lru_cache with an off-by-one capacity.
init_lru_cache_plus_one(e) ==
    LET AITER_MAX_CACHE_SIZE == IF ~e.AITER_MAX_CACHE_SIZE.set THEN <<"-", "1">>
                                ELSE e.AITER_MAX_CACHE_SIZE.value
    IN  LRUCache(atoi(AITER_MAX_CACHE_SIZE) + 1)

\* init_lru_cache: the cache made from getenv("AITER_MAX_CACHE_SIZE").
init_lru_cache(e) ==
    LET AITER_MAX_CACHE_SIZE == IF ~e.AITER_MAX_CACHE_SIZE.set THEN <<"-", "1">>
                                ELSE e.AITER_MAX_CACHE_SIZE.value
        aiter_max_cache_size == atoi(AITER_MAX_CACHE_SIZE)
    IN  LRUCache(aiter_max_cache_size)

\* std::call_once(flag, init_lru_cache, cache)
CallOnceInitCache(cache, e) == IF cache.null THEN init_lru_cache(e) ELSE cache

\* The values of AITER_MAX_CACHE_SIZE considered: unset, texts with no number
\* in them, numbers, and a number followed by other text.
CacheSizeValues ==
    {Unset, Value(<<>>), Value(<<"x">>), Value(<<"0">>), Value(<<"1">>),
     Value(<<"2">>), Value(<<"-", "1">>), Value(<<"2", "x">>)}

NoRoot == <<>>

NoError == [kind |-> "none", what |-> "none"]

\* The value of names_last and of last before any call.
NoNameCall == [op |-> "none", md_name |-> "none", args |-> <<>>, args_str |-> <<>>,
               hit |-> FALSE, ret |-> [md_name |-> "none", digest |-> [md5_of |-> <<>>]],
               evicted |-> {}]
NoCall == [op |-> "none", func_name |-> "none", folder |-> "none", outcome |-> "none",
           error |-> NoError, handle |-> 0, dlopens |-> 0, hit |-> FALSE]

IdleEnv == [AITER_MAX_CACHE_SIZE |-> Unset, AITER_ROOT_DIR |-> Unset, HOME |-> Unset]

\* The threads that call into the header concurrently.
Threads == {"t1", "t2"}

\* The locals of a call: run_lib's func_name, folder, lib_path, the
\* shared_ptr made by make_shared (lib) and the lookup result func_lib;
\* get_default_func_name's md_name, args_str and lookup result func_name_opt
\* (a sequence: empty, or the one value found); once the call has ended, its
\* outcome and what it returned; and, as history, whether its first lookup
\* missed and the identifiers of the run_lib calls other threads were making
\* while it ran.
NoFrame == [op |-> "none", func_name |-> "none", folder |-> "none",
            lib_path |-> <<>>, lib |-> 0, func_lib |-> <<>>,
            md_name |-> "none", args_str |-> <<>>, func_name_opt |-> <<>>,
            missed |-> FALSE, overlapped |-> {}, outcome |-> "none", ret |-> <<>>,
            calls |-> 0]

\* No thread has called anything yet.
IdleThreads ==
    /\ pc = [t \in Threads |-> "idle"]
    /\ frame = [t \in Threads |-> NoFrame]
    /\ init_root_dir_flag = "idle"
    /\ root_inits = 0
    /\ process = "running"

InitDispatch ==
    /\ lookup \in LookupTables
    /\ shape = NoShape
    /\ selected = NotCalled
    /\ env = IdleEnv
    /\ func_names = NullPtr
    /\ names_returned = <<>>
    /\ names_last = NoNameCall
    /\ aiter_root_dir = NoRoot
    /\ fs = <<>>
    /\ libs = NullPtr
    /\ heap = <<>>
    /\ recency = <<>>
    /\ last = NoCall
    /\ IdleThreads

NextDispatch == Dispatch

SpecDispatch == InitDispatch /\ [][NextDispatch]_vars

(***************************************************************************)
(*                      Claims on the shape dispatch                       *)
(***************************************************************************)
Called == shape # NoShape

\* C1: for every (M, N, K) that is a key of the exact lookup table,
\* rowwise_dispatch returns the variant stored under that key, by the exact
\* lookup and not by the padded lookup or the heuristic.
C1_ExactLookupWins ==
    (Called /\ shape \in DOMAIN lookup) =>
        /\ selected.path = "exact"
        /\ selected.kernel = lookup[shape]
        /\ selected.branch = 0

\* A call on a table key whose padded key is in the table too, under another
\* kernel: the exact entry is the one returned.
C1_Witness ==
    /\ shape = <<5, 1024, 1024>>
    /\ shape \in DOMAIN lookup
    /\ <<16, 1024, 1024>> \in DOMAIN lookup
    /\ lookup[<<16, 1024, 1024>>] # lookup[shape]
    /\ selected.kernel = lookup[shape]

\* The least power of two that is >= m (m <= 2^15).
LeastPow2AtLeast(m) ==
    LET P == {Pow2(i) : i \in 0..15} IN
    CHOOSE p \in P : p >= m /\ \A q \in P : q >= m => p <= q

\* padded_M as the claim states it.
ClaimedPaddedM(M) ==
    IF 1 < M /\ M <= 16 THEN 16
    ELSE IF M <= 16384 THEN LeastPow2AtLeast(M)
    ELSE IF M <= 20480 THEN 20480
    ELSE M

\* C2: when (M, N, K) is not in the exact table, padded_M is 16 for
\* 1 < M <= 16, else the next power of two >= M for M <= 16384, else 20480 for
\* M <= 20480, else M; and when (padded_M, N, K) is in the table that entry's
\* variant is returned.
C2_PaddedLookup ==
    (Called /\ shape \notin DOMAIN lookup) =>
        /\ selected.padded_m = ClaimedPaddedM(shape[1])
        /\ <<selected.padded_m, shape[2], shape[3]>> \in DOMAIN lookup =>
              /\ selected.path = "padded"
              /\ selected.kernel = lookup[<<selected.padded_m, shape[2], shape[3]>>]

\* M = 300 is absent from the table and resolves to the (512, N, K) entry.
C2_Witness ==
    /\ shape = <<300, 1024, 1024>>
    /\ <<512, 1024, 1024>> \in DOMAIN lookup
    /\ selected.path = "padded"
    /\ selected.padded_m = 512
    /\ selected.kernel = lookup[<<512, 1024, 1024>>]

HeuristicKernels == {BranchKernel(b) : b \in 1..10}

\* C3: for every (M, N, K) with M, N, K >= 1, rowwise_dispatch returns exactly
\* one kernel variant: one of the three paths answers, with a kernel of the
\* table or of the ladder, and never with "no kernel".
C3_AlwaysAKernel ==
    Called =>
        /\ selected.kernel # NoKernel
        /\ selected.path \in {"exact", "padded", "heuristic"}
        /\ selected.path \in {"exact", "padded"} =>
              selected.kernel \in TunedKernels /\ selected.branch = 0
        /\ selected.path = "heuristic" =>
              /\ selected.branch \in 1..10
              /\ selected.kernel = BranchKernel(selected.branch)
              /\ selected.kernel \in HeuristicKernels

\* A shape no guard of the ladder accepts: the final else answers.
C3_Witness ==
    /\ Called
    /\ selected.path = "heuristic"
    /\ selected.branch = 10
    /\ \A b \in 1..9 : ~Guard(b, shape[1], shape[2], shape[3])

TrueGuards(M, N, K) == {b \in 1..9 : Guard(b, M, N, K)}

\* C4 as stated: the branch guards, each taken on its own as written, are
\* mutually exclusive: at most one is true of any (M, N, K).
C4_GuardsExclusive ==
    Called => Cardinality(TrueGuards(shape[1], shape[2], shape[3])) <= 1

\* C4 as amended: the guards overlap, and the ladder returns the variant of the
\* first branch, top to bottom, whose guard is true (the final else when none
\* is): the order of evaluation decides.
C4_FirstMatchWins ==
    (Called /\ selected.path = "heuristic") =>
        LET T == TrueGuards(shape[1], shape[2], shape[3]) IN
        /\ T = {} => selected.branch = 10
        /\ T # {} =>
              /\ selected.branch \in T
              /\ \A b \in T : selected.branch <= b
        /\ selected.kernel = BranchKernel(selected.branch)

\* Two guards hold at once and their branches return different kernels: the
\* earlier one is taken.
C4_Witness ==
    /\ Called
    /\ selected.path = "heuristic"
    /\ selected.branch = 2
    /\ Guard(6, shape[1], shape[2], shape[3])
    /\ Guard(3, shape[1], shape[2], shape[3])
    /\ BranchKernel(3) # selected.kernel

(***************************************************************************)
(*              get_default_func_name: the identifier cache                *)
(***************************************************************************)

Upper == <<"A", "B", "C", "D", "E", "F", "G", "H", "I", "J", "K", "L", "M",
           "N", "O", "P", "Q", "R", "S", "T", "U", "V", "W", "X", "Y", "Z">>
Lower == <<"a", "b", "c", "d", "e", "f", "g", "h", "i", "j", "k", "l", "m",
           "n", "o", "p", "q", "r", "s", "t", "u", "v", "w", "x", "y", "z">>

\* std::tolower on one character (C locale).
tolower(c) ==
    IF \E i \in 1..Len(Upper) : Upper[i] = c
    THEN Lower[CHOOSE i \in 1..Len(Upper) : Upper[i] = c]
    ELSE c

\* std::transform(..., tolower) over a string.
ToLowerString(s) == [i \in 1..Len(s) |-> tolower(s[i])]

\* fmt::join(args, "_"): the descriptors with "_" between them.
RECURSIVE Join(_)
Join(args) ==
    IF args = <<>> THEN <<>>
    ELSE IF Len(args) = 1 THEN args[1]
    ELSE args[1] \o <<"_">> \o Join(Tail(args))

\* The canonical signature string of an argument list.
Canonical(args) == ToLowerString(Join(args))

\* hash_signature: the MD5 digest of the string as 32 hexadecimal digits.  The
\* digest is kept symbolic, one digest per string: collisions of MD5 are not
\* modelled.
hash_signature(signature) == [md5_of |-> signature]

\* fmt::format("{}_{}", md_name, digest).  The digest has a fixed width, so the
\* text determines both parts; the identifier is kept as the pair.
FormatName(md_name, digest) == [md_name |-> md_name, digest |-> digest]

\* What dereferencing an empty lookup result yields.
UndefinedName == FormatName("<undefined>", hash_signature(<<>>))

\* get_default_func_name(md_name, args) on the cache: the identifier
\* returned, the cache afterwards and whether the first lookup hit.
get_default_func_name(cache0, e, md_name, args) ==
    LET cache    == CallOnceInitCache(cache0, e)
        args_str == Canonical(args)
        first    == LRUGet(cache, args_str)
    IN  IF first.found
        THEN [ret |-> first.value[1], cache |-> first.cache, hit |-> TRUE,
              args_str |-> args_str]
        ELSE LET inserted == LRUPut(first.cache, args_str,
                                    FormatName(md_name, hash_signature(args_str)))
                 second   == LRUGet(inserted, args_str)
             IN  [ret |-> IF second.found THEN second.value[1] ELSE UndefinedName,
                  cache |-> second.cache, hit |-> FALSE, args_str |-> args_str]

\* The module names and the argument lists the calls are made with: two lists
\* that differ in case only, two that join to the same text, and others.
Modules == {"module_gemm_a8w8", "module_activation"}

F8u  == <<"F", "8">>
F8l  == <<"f", "8">>
I8l  == <<"i", "8">>
F8I8 == <<"f", "8", "_", "i", "8">>
BF   == <<"b", "f">>

ArgLists == {<<F8u>>, <<F8l>>, <<F8l, I8l>>, <<F8I8>>, <<BF>>}

CanonicalStrings == {Canonical(a) : a \in ArgLists}

GetDefaultFuncName ==
    \E md_name \in Modules, args \in ArgLists :
        LET r == get_default_func_name(func_names, env, md_name, args)
            before == IF func_names.null THEN {} ELSE Keys(func_names)
        IN  /\ func_names' = r.cache
            /\ names_returned' =
                  [names_returned EXCEPT ![r.args_str] = @ \cup {r.ret}]
            /\ names_last' = [op |-> "get_default_func_name", md_name |-> md_name,
                              args |-> args, args_str |-> r.args_str,
                              hit |-> r.hit, ret |-> r.ret,
                              evicted |-> before \ Keys(r.cache)]
            /\ UNCHANGED <<env, dispatchVars, libsVars, threadVars>>

InitNames ==
    /\ lookup = <<>>
    /\ shape = NoShape
    /\ selected = NotCalled
    /\ env \in {[IdleEnv EXCEPT !.AITER_MAX_CACHE_SIZE = v] : v \in CacheSizeValues}
    /\ func_names = NullPtr
    /\ names_returned = [c \in CanonicalStrings |-> {}]
    /\ names_last = NoNameCall
    /\ aiter_root_dir = NoRoot
    /\ fs = <<>>
    /\ libs = NullPtr
    /\ heap = <<>>
    /\ recency = <<>>
    /\ last = NoCall
    /\ IdleThreads

NextNames == GetDefaultFuncName

SpecNames == InitNames /\ [][NextNames]_vars

(***************************************************************************)
(*                    Claims on the identifier cache                       *)
(***************************************************************************)

\* C5 as stated: over any sequence of get_default_func_name calls, evictions
\* included, calls whose arguments canonicalize to the same string return the
\* same identifier, and calls whose canonical strings differ return different
\* identifiers.
C5_IdentifierDeterminedByCanonical ==
    /\ \A c \in DOMAIN names_returned : Cardinality(names_returned[c]) <= 1
    /\ \A c, d \in DOMAIN names_returned :
          c # d => names_returned[c] \cap names_returned[d] = {}

\* The text is a decimal number: an optional sign and one or more digits.
IsNumber(v) ==
    /\ v.set
    /\ LET t == IF v.value # <<>> /\ Head(v.value) \in {"-", "+"}
                THEN Tail(v.value) ELSE v.value
       IN  t # <<>> /\ \A i \in 1..Len(t) : IsDigit(t[i])

\* C7 as stated: when the maximum-cache-size override is absent or is not a
\* number, the cache is made unbounded and no call evicts a key from it.
C7_NonNumberNeverEvicts ==
    (~func_names.null /\ ~IsNumber(env.AITER_MAX_CACHE_SIZE)) =>
        /\ names_last.evicted = {}
        /\ \A c \in DOMAIN names_returned :
              names_returned[c] # {} => c \in Keys(func_names)

(***************************************************************************)
(*          run_lib, SharedLibrary, not_built: the artifact cache          *)
(***************************************************************************)

\* How many SharedLibrary objects a behaviour constructs at most.
MaxLoads == 3

\* What undefined behaviour (a null char* made a path, an empty lookup result
\* dereferenced) can do: end the process, or surface as an exception.
UndefinedOutcomes == {"terminated", "exception"}

\* init_root_dir: AITER_ROOT_DIR, else HOME, with ".aiter" appended; the set of
\* values aiter_root_dir can get.  With neither variable set the path is made
\* from a null pointer and nothing is assigned.
init_root_dir(e) ==
    LET AITER_ROOT_DIR == IF e.AITER_ROOT_DIR.set THEN e.AITER_ROOT_DIR ELSE e.HOME
    IN  IF AITER_ROOT_DIR.set THEN {<<AITER_ROOT_DIR.value, ".aiter">>} ELSE {}

\* get_root_dir: call_once(init_root_dir), then the static's value; the empty
\* set when the initialisation is undefined.
get_root_dir(root, e) == IF root # NoRoot THEN {root} ELSE init_root_dir(e)

\* get_root_dir() / "build" / folder / "lib.so"
LibPath(root, folder) == root \o <<"build", folder, "lib.so">>

\* std::filesystem::exists
exists(filesystem, path) == path \in DOMAIN filesystem

\* dlopen(path, RTLD_LAZY): a handle unless the file is absent or rejected.
dlopen_ok(filesystem, path) == exists(filesystem, path) /\ filesystem[path].loadable

\* dlerror() after a failed dlopen.
dlopen_error(filesystem, path) ==
    IF exists(filesystem, path) THEN "invalid ELF header"
    ELSE "cannot open shared object file: No such file or directory"

\* SharedLibrary::SharedLibrary throws std::runtime_error(dlerror()).
LoadFailure(filesystem, path) ==
    [kind |-> "std::runtime_error", what |-> dlopen_error(filesystem, path)]

\* SharedLibrary::getRawFunction throws std::runtime_error(dlerror()) when dlsym
\* reports an error.
SymbolFailure == [kind |-> "std::runtime_error", what |-> "undefined symbol"]

\* getRawFunction on the library object: does dlsym find the name?
dlsym_ok(filesystem, objects, lib, funcName) ==
    funcName \in filesystem[objects[lib].path].exports

\* The shared_ptr<SharedLibrary> values the cache owns.
Owned(cache) == {cache.items[i][2] : i \in 1..Len(cache.items)}

\* ~SharedLibrary: an object no shared_ptr owns any more is dlclosed.
Release(objects, cache) ==
    [i \in 1..Len(objects) |->
        [objects[i] EXCEPT !.open = objects[i].open /\ i \in Owned(cache)]]

Result(cache, root, objects, outcome, error, handle, dlopens, hit) ==
    [libs |-> cache, root |-> root, heap |-> Release(objects, cache),
     outcome |-> outcome, error |-> error, handle |-> handle,
     dlopens |-> dlopens, hit |-> hit]

\* (*func_lib)->call(func_name, args...): resolve the entry point and invoke it.
Call(cache, root, objects, filesystem, lib, func_name, dlopens, hit) ==
    IF dlsym_ok(filesystem, objects, lib, func_name)
    THEN {Result(cache, root, objects, "invoked", NoError, lib, dlopens, hit)}
    ELSE {Result(cache, root, objects, "symbol_error", SymbolFailure, lib, dlopens, hit)}

\* run_lib after its first lookup: the outcomes the call can have.
RunLibAfterGet(first, root0, objects, filesystem, e, func_name, folder) ==
    IF first.found
    THEN Call(first.cache, root0, objects, filesystem, first.value[1], func_name, 0, TRUE)
    ELSE IF get_root_dir(root0, e) = {}
    THEN {Result(first.cache, root0, objects, o, NoError, 0, 0, FALSE) :
             o \in UndefinedOutcomes}
    ELSE UNION {
        LET lib_path == LibPath(root, folder) IN
        IF ~dlopen_ok(filesystem, lib_path)
        THEN {Result(first.cache, root, objects, "load_error",
                     LoadFailure(filesystem, lib_path), 0, 1, FALSE)}
        ELSE LET lib      == Len(objects) + 1
                 created  == Append(objects, [path |-> lib_path, open |-> TRUE])
                 inserted == LRUPut(first.cache, func_name, lib)
                 second   == LRUGet(inserted, func_name)
             IN  IF second.found
                 THEN Call(second.cache, root, created, filesystem,
                           second.value[1], func_name, 1, FALSE)
                 ELSE {Result(second.cache, root, created, o, NoError, 0, 1, FALSE) :
                          o \in UndefinedOutcomes}
        : root \in get_root_dir(root0, e)}

\* run_lib that never looks the identifier up before loading.
run_lib_always_load(cache0, root0, objects, filesystem, e, func_name, folder) ==
    LET cache == CallOnceInitCache(cache0, e) IN
    RunLibAfterGet([found |-> FALSE, value |-> <<>>, cache |-> cache],
                   root0, objects, filesystem, e, func_name, folder)

\* run_lib that tries a failed load a second time before giving up.
run_lib_retry(cache0, root0, objects, filesystem, e, func_name, folder) ==
    LET cache == CallOnceInitCache(cache0, e) IN
    {[r EXCEPT !.dlopens = IF r.outcome = "load_error" THEN 2 ELSE @] :
        r \in RunLibAfterGet(LRUGet(cache, func_name),
                             root0, objects, filesystem, e, func_name, folder)}

\* run_lib(func_name, folder, args...): the outcomes the call can have, each
\* with the cache, the build root and the library objects it leaves.
run_lib(cache0, root0, objects, filesystem, e, func_name, folder) ==
    LET cache == CallOnceInitCache(cache0, e) IN
    RunLibAfterGet(LRUGet(cache, func_name),
                   root0, objects, filesystem, e, func_name, folder)

\* not_built(folder): the values it can return ({} when undefined) with the
\* build root it leaves.
not_built(root0, filesystem, e, folder) ==
    {[root |-> root, value |-> ~exists(filesystem, LibPath(root, folder))] :
        root \in get_root_dir(root0, e)}

\* The kernel identifiers and build folders the calls are made with.
Identifiers == {"gemm_a8w8_5d41402a", "gemm_a8w8_7d793037", "activation_9a0364b9"}
Folders     == {"module_gemm_a8w8", "module_activation"}

\* The artifacts a folder can hold: none, a file the loader rejects, a library
\* that exports every identifier, a library that exports only the first.
Good      == [loadable |-> TRUE, exports |-> Identifiers]
Partial   == [loadable |-> TRUE, exports |-> {"gemm_a8w8_5d41402a"}]
Corrupt   == [loadable |-> FALSE, exports |-> {}]
Artifacts == {Good, Partial, Corrupt}

RootDirValues == {Unset, Value("/opt/aiter")}
HomeValues    == {Unset, Value("/home/u")}

PossibleRoots == {<<"/opt/aiter", ".aiter">>, <<"/home/u", ".aiter">>}

\* The filesystems considered: module_gemm_a8w8 holds a library, complete or
\* partial; module_activation is absent or holds any of the artifacts.  The
\* same files lie under either root.
Layouts ==
    {[f \in {"module_gemm_a8w8"} |-> g] : g \in {Good, Partial}} \cup
    {[f \in Folders |-> IF f = "module_gemm_a8w8" THEN g ELSE a] :
        g \in {Good, Partial}, a \in Artifacts}

Filesystems ==
    {[p \in {LibPath(r, f) : r \in PossibleRoots, f \in DOMAIN layout} |->
         layout[p[4]]] : layout \in Layouts}

Running == last.outcome # "terminated"

\* The cached identifiers by last access, oldest first, as the calls made
\* them: func_name was accessed by this call when it ends cached.
Touch(order, cache, func_name) ==
    LET moved == IF func_name \in Keys(cache)
                 THEN SelectSeq(order, LAMBDA k : k # func_name) \o <<func_name>>
                 ELSE order
    IN  SelectSeq(moved, LAMBDA k : k \in Keys(cache))

RunLib ==
    /\ Running
    /\ \E func_name \in Identifiers, folder \in Folders :
       \E r \in run_lib(libs, aiter_root_dir, heap, fs, env, func_name, folder) :
          /\ Len(r.heap) <= MaxLoads
          /\ libs' = r.libs
          /\ aiter_root_dir' = r.root
          /\ heap' = r.heap
          /\ recency' = Touch(recency, r.libs, func_name)
          /\ last' = [op |-> "run_lib", func_name |-> func_name, folder |-> folder,
                      outcome |-> r.outcome, error |-> r.error, handle |-> r.handle,
                      dlopens |-> r.dlopens, hit |-> r.hit]
    /\ UNCHANGED <<env, fs, dispatchVars, namesVars, threadVars>>

NotBuilt ==
    /\ Running
    /\ \E folder \in Folders :
          LET rs == not_built(aiter_root_dir, fs, env, folder) IN
          \/ /\ rs # {}
             /\ \E r \in rs :
                   /\ aiter_root_dir' = r.root
                   /\ last' = [NoCall EXCEPT !.op = "not_built", !.folder = folder,
                                  !.outcome = IF r.value THEN "true" ELSE "false"]
          \/ /\ rs = {}
             /\ \E o \in UndefinedOutcomes :
                   /\ aiter_root_dir' = aiter_root_dir
                   /\ last' = [NoCall EXCEPT !.op = "not_built", !.folder = folder,
                                  !.outcome = o]
    /\ UNCHANGED <<env, fs, libs, heap, recency, dispatchVars, namesVars, threadVars>>

InitLibs ==
    /\ lookup = <<>>
    /\ shape = NoShape
    /\ selected = NotCalled
    /\ env \in {[AITER_MAX_CACHE_SIZE |-> c, AITER_ROOT_DIR |-> r, HOME |-> h] :
                   c \in CacheSizeValues, r \in RootDirValues, h \in HomeValues}
    /\ func_names = NullPtr
    /\ names_returned = <<>>
    /\ names_last = NoNameCall
    /\ aiter_root_dir = NoRoot
    /\ fs \in Filesystems
    /\ libs = NullPtr
    /\ heap = <<>>
    /\ recency = <<>>
    /\ last = NoCall
    /\ IdleThreads

NextLibs == RunLib \/ NotBuilt

SpecLibs == InitLibs /\ [][NextLibs]_vars

(***************************************************************************)
(*                     Claims on the artifact cache                        *)
(***************************************************************************)

\* The override names a bounded capacity C >= 1.
BoundedOverride ==
    IsNumber(env.AITER_MAX_CACHE_SIZE) /\ atoi(env.AITER_MAX_CACHE_SIZE.value) >= 1
ConfiguredCapacity == atoi(env.AITER_MAX_CACHE_SIZE.value)

\* A step that inserts a key the cache did not hold.
InsertsNewKey == Keys(libs') \ Keys(libs) # {}

AtMostCapacity ==
    BoundedOverride =>
        /\ Cardinality(Keys(libs)) <= ConfiguredCapacity
        /\ Len(libs.items) = Cardinality(Keys(libs))

EvictsOldest ==
    BoundedOverride =>
        /\ InsertsNewKey /\ Len(libs.items) = ConfiguredCapacity =>
              Keys(libs) \ Keys(libs') = {Head(recency)}
        /\ InsertsNewKey /\ Len(libs.items) < ConfiguredCapacity =>
              Keys(libs) \subseteq Keys(libs')
        /\ ~InsertsNewKey => Keys(libs') = Keys(libs)

JustAccessedSurvives ==
    (InsertsNewKey /\ recency # <<>>) => recency[Len(recency)] \in Keys(libs')

\* C6 as stated: a cache of bounded capacity C holds at most C keys;
\* inserting a new key into a full cache evicts exactly the key whose last
\* access is oldest; and the key accessed last is not the one evicted by the
\* next insertion.
C6_LRUEvictionAnyCapacity ==
    [][EvictsOldest /\ (BoundedOverride => JustAccessedSurvives)]_vars

\* C6 as amended: a cache of bounded capacity C holds at most C keys;
\* inserting a new key into a full cache evicts exactly the key whose last
\* access (get hit or put) is oldest; and when C >= 2 the key accessed last
\* is not the one evicted by the next insertion (with C = 1 it is the only key
\* and is evicted).
C6_LRUEviction ==
    /\ []AtMostCapacity
    /\ [][/\ EvictsOldest
          /\ (BoundedOverride /\ ConfiguredCapacity >= 2) => JustAccessedSurvives
          /\ (BoundedOverride /\ ConfiguredCapacity = 1 /\ InsertsNewKey) =>
                Keys(libs') \cap Keys(libs) = {}]_vars

\* A full cache of capacity 2 after a third identifier was inserted: the
\* first one loaded is gone, its library closed, the other two are cached.
C6_Witness ==
    /\ BoundedOverride
    /\ ConfiguredCapacity = 2
    /\ Len(heap) = 3
    /\ Cardinality(Keys(libs)) = 2
    /\ ~heap[1].open
    /\ heap[2].open /\ heap[3].open
    /\ last.op = "run_lib" /\ last.handle = 3 /\ ~last.hit

\* C8: two successive run_lib calls with the same identifier, the first of
\* which loaded the artifact, use the same SharedLibrary: the second is a
\* cache hit and loads (dlopens) nothing.
C8_SecondCallHits ==
    [][(/\ last.op = "run_lib"
        /\ last.outcome \in {"invoked", "symbol_error"}
        /\ last'.op = "run_lib"
        /\ last'.func_name = last.func_name) =>
           /\ last'.hit
           /\ last'.dlopens = 0
           /\ last'.handle = last.handle
           /\ Len(heap') = Len(heap)
           /\ heap'[last'.handle].open
           /\ last'.outcome = last.outcome]_vars

\* A call that hit the cache and invoked the entry point through the one
\* library object loaded so far.
C8_Witness ==
    /\ last.op = "run_lib"
    /\ last.hit
    /\ last.dlopens = 0
    /\ last.outcome = "invoked"
    /\ Len(heap) = 1
    /\ last.handle = 1
    /\ heap[1].open

MissingArtifactError ==
    [kind |-> "std::runtime_error",
     what |-> "cannot open shared object file: No such file or directory"]

\* C9 as stated: in every state in which <BuildRoot>/build/<folder>/lib.so
\* does not exist, not_built(folder) returns true and run_lib(identifier,
\* folder, ...) fails with the missing-artifact error instead of invoking an
\* entry point, whatever calls were made before.
C9_MissingArtifactFails ==
    (aiter_root_dir # NoRoot /\ last.op # "none"
        /\ ~exists(fs, LibPath(aiter_root_dir, last.folder))) =>
        /\ last.op = "not_built" => last.outcome = "true"
        /\ last.op = "run_lib" =>
              /\ last.outcome = "load_error"
              /\ last.error = MissingArtifactError

\* C10 as stated: a failure to load and a failure to resolve the entry point
\* are errors of different kinds, told apart by the kind alone.
C10_ErrorKindsDiffer ==
    [][(/\ last.outcome \in {"load_error", "symbol_error"}
        /\ last'.outcome \in {"load_error", "symbol_error"}
        /\ last'.outcome # last.outcome) =>
           last'.error.kind # last.error.kind]_vars

\* C11 as stated: when neither AITER_ROOT_DIR nor HOME is set, a call that
\* resolves the build root (run_lib, not_built) fails with a
\* ConfigurationError surfaced to its caller, and no build root value is
\* produced or used.
C11_UnsetRootFails ==
    (~env.AITER_ROOT_DIR.set /\ ~env.HOME.set /\ last.op # "none") =>
        /\ last.outcome = "exception"
        /\ last.error.kind = "ConfigurationError"
        /\ last.dlopens = 0
        /\ aiter_root_dir = NoRoot

(***************************************************************************)
(*                      Further claims on the dispatch                     *)
(***************************************************************************)

\* C15: for every M >= 1 the padded_M of rowwise_dispatch is at least M, is 1
\* for M = 1 and is M for M > 20480; and padding changes neither N nor K: the
\* padded lookup is made under (padded_M, N, K) and the heuristic is given
\* (M, N, K).
C15_PaddingNeverShrinks ==
    (Called /\ shape[1] >= 1) =>
        /\ PaddedM(shape[1]) >= shape[1]
        /\ selected.padded_m >= shape[1]
        /\ shape[1] = 1 => selected.padded_m = 1
        /\ shape[1] > 20480 => selected.padded_m = shape[1]
        /\ selected.path = "padded" =>
              /\ <<selected.padded_m, shape[2], shape[3]>> \in DOMAIN lookup
              /\ selected.kernel = lookup[<<selected.padded_m, shape[2], shape[3]>>]
        /\ selected.path = "heuristic" =>
              /\ <<selected.padded_m, shape[2], shape[3]>> \notin DOMAIN lookup
              /\ selected.kernel = rowwise_heuristic_dispatch(shape[1], shape[2], shape[3])

\* M = 18000 is padded up to the 20480 bucket and found there, under the N
\* and K of the call.
C15_Witness ==
    /\ shape = <<18000, 1024, 1024>>
    /\ selected.path = "padded"
    /\ selected.padded_m = 20480
    /\ selected.kernel = lookup[<<20480, 1024, 1024>>]

\* The small-batch branches of the ladder: the four with a guard on N or K,
\* and the catch-all "M < 64" after them.
SmallBatchSpecific == {2, 3, 4, 5}
SmallBatchCatchAll == 6

\* C17: in rowwise_heuristic_dispatch with K >= 512 and M < 64 the catch-all
\* small-batch branch is taken exactly when N >= 2048 and K >= 2048 and at
\* least one of N, K equals 2048; for every other (N, K) one of the four
\* small-batch branches before it is taken.
C17_CatchAllOnBoundary ==
    (Called /\ shape[3] >= 512 /\ shape[1] < 64) =>
        LET N == shape[2]
            K == shape[3]
            b == HeuristicBranch(shape[1], N, K)
            OnBoundary == N >= 2048 /\ K >= 2048 /\ (N = 2048 \/ K = 2048)
        IN  /\ (b = SmallBatchCatchAll) <=> OnBoundary
            /\ ~OnBoundary => b \in SmallBatchSpecific
            /\ selected.path = "heuristic" =>
                  /\ selected.branch = b
                  /\ selected.kernel = BranchKernel(b)

\* M = 17, N = 2049, K = 2048: on the boundary in K only, answered by the
\* catch-all branch.
C17_Witness ==
    /\ shape = <<17, 2049, 2048>>
    /\ selected.path = "heuristic"
    /\ selected.branch = SmallBatchCatchAll
    /\ selected.kernel = BranchKernel(SmallBatchCatchAll)

(***************************************************************************)
(*                  Further claims on the artifact cache                   *)
(***************************************************************************)

\* C16: a run_lib call that fails while loading the artifact leaves the
\* artifact cache as it was before the call (no entry is inserted for the
\* identifier, no entry is dropped, the recency order is unchanged, no
\* library object is created or closed), makes one load attempt and no
\* second one, and the next run_lib for the same identifier attempts the
\* load again.
C16_FailedLoadLeavesCache ==
    /\ [](last.outcome = "load_error" => last.func_name \notin Keys(libs))
    /\ [][/\ (last'.op = "run_lib" /\ last'.outcome = "load_error") =>
                /\ libs'.items = libs.items
                /\ recency' = recency
                /\ heap' = heap
                /\ ~last'.hit
                /\ last'.dlopens = 1
                /\ last'.handle = 0
          /\ (/\ last.outcome = "load_error"
              /\ last'.op = "run_lib"
              /\ last'.func_name = last.func_name) =>
                /\ ~last'.hit
                /\ last'.dlopens = 1]_vars

\* A load that failed for one identifier while another one is cached: the
\* cache still holds that other identifier alone, its library open.
C16_Witness ==
    /\ last.op = "run_lib"
    /\ last.outcome = "load_error"
    /\ last.dlopens = 1
    /\ Len(libs.items) = 1
    /\ recency = <<libs.items[1][1]>>
    /\ last.func_name # libs.items[1][1]
    /\ Len(heap) = 1
    /\ heap[1].open

(***************************************************************************)
(*                 Further claims on the identifier cache                  *)
(***************************************************************************)

\* C19 as stated: every call get_default_func_name(md_name, args), whatever
\* calls preceded it, returns md_name + "_" + hash_signature(canonical(args)):
\* the identifier carries the md_name of the call that returns it.
C19_OwnModulePrefix ==
    names_last.op = "get_default_func_name" =>
        names_last.ret = FormatName(names_last.md_name,
                                    hash_signature(Canonical(names_last.args)))

\* C20 as stated: every run_lib(identifier, folder, ...) that reaches the
\* entry point, whatever calls preceded it, goes through a handle loaded from
\* <BuildRoot>/build/<folder>/lib.so for the folder of that call.
C20_HandleFromOwnFolder ==
    (last.op = "run_lib" /\ last.outcome \in {"invoked", "symbol_error"}) =>
        heap[last.handle].path = LibPath(aiter_root_dir, last.folder)

(***************************************************************************)
(*        Concurrent callers: the build root and its once_flag             *)
(***************************************************************************)

\* How many calls the threads make in all, at most.
MaxCalls == 3

\* The calls the threads of S have made so far.
RECURSIVE CallsOf(_)
CallsOf(S) ==
    IF S = {} THEN 0
    ELSE LET t == CHOOSE u \in S : TRUE IN frame[t].calls + CallsOf(S \ {t})

Alive == process = "running"

\* The call of a thread ends: its locals go out of scope; the identifier it
\* was made for, its outcome and its return value stay for inspection.
Ended(f, outcome, ret) ==
    [f EXCEPT !.outcome = outcome, !.ret = ret, !.lib = 0, !.func_lib = <<>>,
              !.func_name_opt = <<>>, !.folder = "none", !.lib_path = <<>>,
              !.md_name = "none"]

\* A thread calls not_built(folder); its first statement is get_root_dir().
BeginNotBuilt(t) ==
    /\ Alive
    /\ pc[t] = "idle"
    /\ CallsOf(Threads) < MaxCalls
    /\ \E folder \in Folders :
          frame' = [frame EXCEPT ![t] =
                       [NoFrame EXCEPT !.op = "not_built", !.folder = folder,
                                       !.calls = frame[t].calls + 1]]
    /\ pc' = [pc EXCEPT ![t] = "get_root_dir"]
    /\ UNCHANGED <<env, dispatchVars, namesVars, libsVars,
                   init_root_dir_flag, root_inits, process>>

\* std::call_once(init_root_dir_flag, init_root_dir) when no execution has
\* succeeded and none is under way: the thread becomes the active execution
\* and enters init_root_dir.  While it is active the other callers wait.
EnterInitRootDir(t) ==
    /\ Alive
    /\ pc[t] = "get_root_dir"
    /\ init_root_dir_flag = "idle"
    /\ init_root_dir_flag' = "active"
    /\ root_inits' = root_inits + 1
    /\ pc' = [pc EXCEPT ![t] = "init_root_dir"]
    /\ UNCHANGED <<env, dispatchVars, namesVars, libsVars, frame, process>>

\* The body of init_root_dir, run by the active execution.  It returns, and
\* the flag is set; or, with neither variable set, its behaviour is undefined:
\* the process ends, or an exception leaves call_once with the flag unset.
InitRootDir(t) ==
    /\ Alive
    /\ pc[t] = "init_root_dir"
    /\ LET roots == init_root_dir(env) IN
       \/ /\ \E root \in roots : aiter_root_dir' = root
          /\ init_root_dir_flag' = "done"
          /\ pc' = [pc EXCEPT ![t] = "get_root_dir"]
          /\ UNCHANGED <<frame, process>>
       \/ /\ roots = {}
          /\ process' = "terminated"
          /\ UNCHANGED <<aiter_root_dir, init_root_dir_flag, pc, frame>>
       \/ /\ roots = {}
          /\ init_root_dir_flag' = "idle"
          /\ pc' = [pc EXCEPT ![t] = "idle"]
          /\ frame' = [frame EXCEPT ![t] = Ended(@, "exception", <<>>)]
          /\ UNCHANGED <<aiter_root_dir, process>>
    /\ UNCHANGED <<env, dispatchVars, namesVars, fs, libs, heap, recency, last,
                   root_inits>>

\* get_root_dir returns the static once call_once found the flag set; the
\* caller appends "build" / folder / "lib.so".
ReturnRootDir(t) ==
    /\ Alive
    /\ pc[t] = "get_root_dir"
    /\ init_root_dir_flag = "done"
    /\ frame' = [frame EXCEPT ![t].lib_path = LibPath(aiter_root_dir, frame[t].folder)]
    /\ pc' = [pc EXCEPT ![t] = IF frame[t].op = "not_built" THEN "exists"
                                ELSE "make_shared"]
    /\ UNCHANGED <<env, dispatchVars, namesVars, libsVars,
                   init_root_dir_flag, root_inits, process>>

\* not_built returns !std::filesystem::exists(lib_path).
ReturnNotBuilt(t) ==
    /\ Alive
    /\ pc[t] = "exists"
    /\ frame' = [frame EXCEPT ![t] =
                    Ended(@, "returned", <<~exists(fs, @.lib_path)>>)]
    /\ pc' = [pc EXCEPT ![t] = "idle"]
    /\ UNCHANGED <<env, dispatchVars, namesVars, libsVars,
                   init_root_dir_flag, root_inits, process>>

\* The program changes AITER_ROOT_DIR or HOME (setenv, unsetenv) while no
\* thread is reading them in init_root_dir.
SetEnv ==
    /\ Alive
    /\ init_root_dir_flag # "active"
    /\ \E r \in RootDirValues, h \in HomeValues :
          /\ env' = [env EXCEPT !.AITER_ROOT_DIR = r, !.HOME = h]
          /\ env' # env
    /\ UNCHANGED <<dispatchVars, namesVars, libsVars, threadVars>>

InitRoot ==
    /\ lookup = <<>>
    /\ shape = NoShape
    /\ selected = NotCalled
    /\ env \in {[IdleEnv EXCEPT !.AITER_ROOT_DIR = r, !.HOME = h] :
                   r \in RootDirValues, h \in HomeValues}
    /\ func_names = NullPtr
    /\ names_returned = <<>>
    /\ names_last = NoNameCall
    /\ aiter_root_dir = NoRoot
    /\ fs \in Filesystems
    /\ libs = NullPtr
    /\ heap = <<>>
    /\ recency = <<>>
    /\ last = NoCall
    /\ IdleThreads

NextRoot ==
    \/ \E t \in Threads : BeginNotBuilt(t)
    \/ \E t \in Threads : EnterInitRootDir(t)
    \/ \E t \in Threads : InitRootDir(t)
    \/ \E t \in Threads : ReturnRootDir(t)
    \/ \E t \in Threads : ReturnNotBuilt(t)
    \/ SetEnv

SpecRoot == InitRoot /\ [][NextRoot]_vars

(***************************************************************************)
(*                       Claims on the build root                          *)
(***************************************************************************)

\* The build root a thread's call got from get_root_dir, when it got one.
RootReturned(t) == SubSeq(frame[t].lib_path, 1, 2)

\* C12 as stated: the build root is resolved exactly once: however the
\* threads race on their first get_root_dir and however the environment
\* changes later, init_root_dir runs once and every get_root_dir call
\* returns the value that single run resolved.
C12_ResolvedOnce ==
    /\ root_inits <= 1
    /\ \A t \in Threads :
          frame[t].lib_path # <<>> =>
              /\ root_inits = 1
              /\ RootReturned(t) = aiter_root_dir

(***************************************************************************)
(*      Concurrent callers: run_lib and get_default_func_name by steps     *)
(*                                                                         *)
(* A step is one access to shared state: a call_once, a get or a put of a  *)
(* cache (each serialised by the cache), a dlopen, the entry and the       *)
(* return of the invoked kernel.  The objects of heap carry here the       *)
(* use_count of their shared_ptr and the number of dlclose calls made on   *)
(* their handle.                                                           *)
(***************************************************************************)

\* The object make_shared<SharedLibrary>(lib_path) constructs, owned by the
\* temporary shared_ptr.
NewSharedLibrary(lib_path) ==
    [path |-> lib_path, open |-> TRUE, use_count |-> 1, dlcloses |-> 0]

\* A shared_ptr to object i is copied.
Acquire(objects, i) == [objects EXCEPT ![i].use_count = @ + 1]

\* A shared_ptr to object i is destroyed; the last one runs ~SharedLibrary,
\* which dlcloses the handle.
Drop(objects, i) ==
    IF objects[i].use_count = 1
    THEN [objects EXCEPT ![i].use_count = 0, ![i].open = FALSE,
                         ![i].dlcloses = @ + 1]
    ELSE [objects EXCEPT ![i].use_count = @ - 1]

\* The shared_ptrs to the objects of S (one each) are destroyed.
RECURSIVE DropAll(_, _)
DropAll(objects, S) ==
    IF S = {} THEN objects
    ELSE LET i == CHOOSE j \in S : TRUE IN DropAll(Drop(objects, i), S \ {i})

\* The identifiers, argument lists and module names the threads call with.
ThreadIdentifiers == {"gemm_a8w8_5d41402a", "gemm_a8w8_7d793037"}
ThreadArgLists    == {<<F8l>>, <<BF>>}
ThreadModules     == {"module_gemm_a8w8"}

\* The identifiers of the run_lib calls the threads other than t are making.
InProgress(t) ==
    {frame[u].func_name :
        u \in {v \in Threads \ {t} : pc[v] # "idle" /\ frame[v].op = "run_lib"}}

\* A lookup whose result refers to the cached library without owning it.
LookupBorrowed(t, cache, f, others) ==
    LET r == LRUGet(cache, f.func_name) IN
    /\ libs' = r.cache
    /\ heap' = heap
    /\ frame' = [u \in Threads |->
                    IF u = t
                    THEN [f EXCEPT !.func_lib = r.value, !.missed = @ \/ ~r.found]
                    ELSE others[u]]
    /\ pc' = [pc EXCEPT ![t] = IF ~r.found /\ ~f.missed
                                THEN "get_root_dir" ELSE "call"]

\* What the statement func_lib = libs->get(func_name) of thread t, whose
\* locals are f, does to the cache, the objects and the locals: the optional
\* holds a copy of the cached shared_ptr, or nothing.  A first lookup that
\* misses goes on to load; every other goes on to the call.  (others: the
\* frames of the other threads.)
Lookup(t, cache, f, others) ==
    LET r == LRUGet(cache, f.func_name) IN
    /\ libs' = r.cache
    /\ heap' = IF r.found THEN Acquire(heap, r.value[1]) ELSE heap
    /\ frame' = [u \in Threads |->
                    IF u = t
                    THEN [f EXCEPT !.func_lib = r.value, !.missed = @ \/ ~r.found]
                    ELSE others[u]]
    /\ pc' = [pc EXCEPT ![t] = IF ~r.found /\ ~f.missed
                                THEN "get_root_dir" ELSE "call"]


\* run_lib(func_name, folder, ...) begins: call_once(init_libs_lru_cache,
\* init_lru_cache, libs), then the first func_lib = libs->get(func_name).
\* (The call_once only constructs the cache, the same one whichever thread
\* runs it, so it is taken together with the lookup.)
BeginRunLib(t) ==
    /\ Alive
    /\ pc[t] = "idle"
    /\ CallsOf(Threads) < MaxCalls
    /\ \E func_name \in ThreadIdentifiers, folder \in Folders :
          Lookup(t, CallOnceInitCache(libs, env),
                 [NoFrame EXCEPT !.op = "run_lib", !.func_name = func_name,
                                 !.folder = folder,
                                 !.overlapped = InProgress(t),
                                 !.calls = frame[t].calls + 1],
                 [u \in Threads |->
                     IF pc[u] # "idle" /\ frame[u].op = "run_lib"
                     THEN [frame[u] EXCEPT !.overlapped = @ \cup {func_name}]
                     ELSE frame[u]])
    /\ UNCHANGED <<env, dispatchVars, namesVars, aiter_root_dir, fs, recency, last,
                   init_root_dir_flag, root_inits, process>>

\* func_lib = libs->get(func_name) after the put.
Get(t) ==
    /\ Alive
    /\ pc[t] = "get"
    /\ Lookup(t, libs, frame[t], frame)
    /\ UNCHANGED <<env, dispatchVars, namesVars, aiter_root_dir, fs, recency, last,
                   init_root_dir_flag, root_inits, process>>

\* std::make_shared<SharedLibrary>(lib_path): the constructor dlopens the
\* file or throws, and the exception ends run_lib.
MakeShared(t) ==
    /\ Alive
    /\ pc[t] = "make_shared"
    /\ Len(heap) < MaxLoads
    /\ IF dlopen_ok(fs, frame[t].lib_path)
       THEN /\ heap' = Append(heap, NewSharedLibrary(frame[t].lib_path))
            /\ frame' = [frame EXCEPT ![t].lib = Len(heap) + 1]
            /\ pc' = [pc EXCEPT ![t] = "put"]
       ELSE /\ heap' = heap
            /\ frame' = [frame EXCEPT ![t] = Ended(@, "load_error", <<>>)]
            /\ pc' = [pc EXCEPT ![t] = "idle"]
    /\ UNCHANGED <<env, dispatchVars, namesVars, aiter_root_dir, fs, libs, recency,
                   last, init_root_dir_flag, root_inits, process>>

\* A put that leaves an identifier already cached alone: the first handle
\* stays and the temporary is destroyed.
PutIfAbsent(t) ==
    /\ Alive
    /\ pc[t] = "put"
    /\ LET lib      == frame[t].lib
           inserted == IF frame[t].func_name \in Keys(libs) THEN libs
                       ELSE LRUPut(libs, frame[t].func_name, lib)
           copied   == IF frame[t].func_name \in Keys(libs) THEN heap
                       ELSE Acquire(heap, lib)
           released == DropAll(copied, Owned(libs) \ Owned(inserted))
       IN  /\ libs' = inserted
           /\ heap' = Drop(released, lib)
    /\ frame' = [frame EXCEPT ![t].lib = 0]
    /\ pc' = [pc EXCEPT ![t] = "get"]
    /\ UNCHANGED <<env, dispatchVars, namesVars, aiter_root_dir, fs, recency, last,
                   init_root_dir_flag, root_inits, process>>

\* libs->put(func_name, <the temporary>): the cache takes a copy, lets go of
\* the value it replaces and of the entries it evicts, and the temporary is
\* destroyed at the end of the statement.
Put(t) ==
    /\ Alive
    /\ pc[t] = "put"
    /\ LET lib      == frame[t].lib
           inserted == LRUPut(libs, frame[t].func_name, lib)
           copied   == Acquire(heap, lib)
           released == DropAll(copied, Owned(libs) \ Owned(inserted))
       IN  /\ libs' = inserted
           /\ heap' = Drop(released, lib)
    /\ frame' = [frame EXCEPT ![t].lib = 0]
    /\ pc' = [pc EXCEPT ![t] = "get"]
    /\ UNCHANGED <<env, dispatchVars, namesVars, aiter_root_dir, fs, recency, last,
                   init_root_dir_flag, root_inits, process>>

\* (*func_lib)->call(func_name, ...): getRawFunction resolves the entry point
\* or throws; the kernel is entered.  Dereferencing an empty func_lib is
\* undefined: the process ends, or an exception ends run_lib.
Invoke(t) ==
    /\ Alive
    /\ pc[t] = "call"
    /\ \/ /\ frame[t].func_lib # <<>>
          /\ dlsym_ok(fs, heap, frame[t].func_lib[1], frame[t].func_name)
          /\ pc' = [pc EXCEPT ![t] = "invoked"]
          /\ UNCHANGED <<heap, frame, process>>
       \/ /\ frame[t].func_lib # <<>>
          /\ ~dlsym_ok(fs, heap, frame[t].func_lib[1], frame[t].func_name)
          /\ heap' = Drop(heap, frame[t].func_lib[1])
          /\ frame' = [frame EXCEPT ![t] = Ended(@, "symbol_error", <<>>)]
          /\ pc' = [pc EXCEPT ![t] = "idle"]
          /\ UNCHANGED process
       \/ /\ frame[t].func_lib = <<>>
          /\ process' = "terminated"
          /\ UNCHANGED <<heap, frame, pc>>
       \/ /\ frame[t].func_lib = <<>>
          /\ frame' = [frame EXCEPT ![t] = Ended(@, "exception", <<>>)]
          /\ pc' = [pc EXCEPT ![t] = "idle"]
          /\ UNCHANGED <<heap, process>>
    /\ UNCHANGED <<env, dispatchVars, namesVars, aiter_root_dir, fs, libs, recency,
                   last, init_root_dir_flag, root_inits>>

\* The kernel returns and run_lib with it: func_lib goes out of scope.
ReturnRunLib(t) ==
    /\ Alive
    /\ pc[t] = "invoked"
    /\ heap' = Drop(heap, frame[t].func_lib[1])
    /\ frame' = [frame EXCEPT ![t] = Ended(@, "invoked", <<>>)]
    /\ pc' = [pc EXCEPT ![t] = "idle"]
    /\ UNCHANGED <<env, dispatchVars, namesVars, aiter_root_dir, fs, libs, recency,
                   last, init_root_dir_flag, root_inits, process>>

\* get_default_func_name(md_name, args) begins: call_once(
\* init_func_names_lru_cache, ...), then args_str is joined and lowered.
BeginGetName(t) ==
    /\ Alive
    /\ pc[t] = "idle"
    /\ CallsOf(Threads) < MaxCalls
    /\ \E md_name \in ThreadModules, args \in ThreadArgLists :
          frame' = [frame EXCEPT ![t] =
                       [NoFrame EXCEPT !.op = "get_default_func_name",
                                       !.md_name = md_name,
                                       !.args_str = Canonical(args),
                                       !.calls = frame[t].calls + 1]]
    /\ func_names' = CallOnceInitCache(func_names, env)
    /\ pc' = [pc EXCEPT ![t] = "names_get"]
    /\ UNCHANGED <<env, dispatchVars, names_returned, names_last, libsVars,
                   init_root_dir_flag, root_inits, process>>

\* func_name = func_names->get(args_str), the first lookup or the one after
\* put.
NamesGet(t) ==
    /\ Alive
    /\ pc[t] = "names_get"
    /\ LET r == LRUGet(func_names, frame[t].args_str) IN
       /\ func_names' = r.cache
       /\ frame' = [frame EXCEPT ![t].func_name_opt = r.value,
                                 ![t].missed = @ \/ ~r.found]
       /\ pc' = [pc EXCEPT ![t] = IF ~r.found /\ ~frame[t].missed
                                   THEN "names_put" ELSE "names_return"]
    /\ UNCHANGED <<env, dispatchVars, names_returned, names_last, libsVars,
                   init_root_dir_flag, root_inits, process>>

\* func_names->put(args_str, fmt::format("{}_{}", md_name, hash_signature(args_str)))
NamesPut(t) ==
    /\ Alive
    /\ pc[t] = "names_put"
    /\ func_names' = LRUPut(func_names, frame[t].args_str,
                            FormatName(frame[t].md_name,
                                       hash_signature(frame[t].args_str)))
    /\ pc' = [pc EXCEPT ![t] = "names_get"]
    /\ UNCHANGED <<env, dispatchVars, names_returned, names_last, libsVars,
                   frame, init_root_dir_flag, root_inits, process>>

\* return *func_name; dereferencing an empty func_name is undefined.
ReturnName(t) ==
    /\ Alive
    /\ pc[t] = "names_return"
    /\ \/ /\ frame[t].func_name_opt # <<>>
          /\ frame' = [frame EXCEPT ![t] = Ended(@, "returned", @.func_name_opt)]
          /\ pc' = [pc EXCEPT ![t] = "idle"]
          /\ UNCHANGED process
       \/ /\ frame[t].func_name_opt = <<>>
          /\ process' = "terminated"
          /\ UNCHANGED <<frame, pc>>
       \/ /\ frame[t].func_name_opt = <<>>
          /\ frame' = [frame EXCEPT ![t] = Ended(@, "exception", <<>>)]
          /\ pc' = [pc EXCEPT ![t] = "idle"]
          /\ UNCHANGED process
    /\ UNCHANGED <<env, dispatchVars, namesVars, libsVars,
                   init_root_dir_flag, root_inits>>

\* The process exits once every call has returned: the static libs is
\* destroyed and with it the shared_ptrs the cache holds.
Exit ==
    /\ Alive
    /\ \A t \in Threads : pc[t] = "idle"
    /\ ~libs.null
    /\ heap' = DropAll(heap, Owned(libs))
    /\ libs' = NullPtr
    /\ process' = "exited"
    /\ UNCHANGED <<env, dispatchVars, namesVars, aiter_root_dir, fs, recency, last,
                   pc, frame, init_root_dir_flag, root_inits>>

\* The environments and filesystems the threads run in.
ThreadCacheSizes == {Unset, Value(<<"1">>)}
CallsCacheSizes  == {Unset, Value(<<"0">>), Value(<<"1">>)}

ThreadLayouts ==
    {[f \in {"module_gemm_a8w8"} |-> Good],
     [f \in Folders |-> IF f = "module_gemm_a8w8" THEN Good ELSE Partial]}

ThreadFilesystems ==
    {[p \in {LibPath(r, f) : r \in PossibleRoots, f \in DOMAIN layout} |->
         layout[p[4]]] : layout \in ThreadLayouts}

InitThreads ==
    /\ lookup = <<>>
    /\ shape = NoShape
    /\ selected = NotCalled
    /\ env \in {[IdleEnv EXCEPT !.AITER_MAX_CACHE_SIZE = c, !.HOME = h] :
                   c \in ThreadCacheSizes, h \in HomeValues}
    /\ func_names = NullPtr
    /\ names_returned = <<>>
    /\ names_last = NoNameCall
    /\ aiter_root_dir = NoRoot
    /\ fs \in ThreadFilesystems
    /\ libs = NullPtr
    /\ heap = <<>>
    /\ recency = <<>>
    /\ last = NoCall
    /\ IdleThreads

InitCalls ==
    /\ lookup = <<>>
    /\ shape = NoShape
    /\ selected = NotCalled
    /\ env \in {[IdleEnv EXCEPT !.AITER_MAX_CACHE_SIZE = c, !.HOME = h] :
                   c \in CallsCacheSizes, h \in HomeValues}
    /\ func_names = NullPtr
    /\ names_returned = <<>>
    /\ names_last = NoNameCall
    /\ aiter_root_dir = NoRoot
    /\ fs \in ThreadFilesystems
    /\ libs = NullPtr
    /\ heap = <<>>
    /\ recency = <<>>
    /\ last = NoCall
    /\ IdleThreads

NextThreads ==
    \/ \E t \in Threads : BeginRunLib(t)
    \/ \E t \in Threads : Get(t)
    \/ \E t \in Threads : EnterInitRootDir(t)
    \/ \E t \in Threads : InitRootDir(t)
    \/ \E t \in Threads : ReturnRootDir(t)
    \/ \E t \in Threads : MakeShared(t)
    \/ \E t \in Threads : Put(t)
    \/ \E t \in Threads : Invoke(t)
    \/ \E t \in Threads : ReturnRunLib(t)
    \/ Exit

\* The threads call run_lib.
SpecThreads == InitThreads /\ [][NextThreads]_vars

NextCalls ==
    \/ NextThreads
    \/ \E t \in Threads : BeginGetName(t)
    \/ \E t \in Threads : NamesGet(t)
    \/ \E t \in Threads : NamesPut(t)
    \/ \E t \in Threads : ReturnName(t)

\* The threads call run_lib and get_default_func_name.
SpecCalls == InitCalls /\ [][NextCalls]_vars

(***************************************************************************)
(*                    Claims on the concurrent callers                     *)
(***************************************************************************)

\* The library a thread is calling through: func_lib is set and the thread
\* is resolving the entry point or inside it.
Calling(t) == pc[t] \in {"call", "invoked"} /\ frame[t].func_lib # <<>>

\* C13: each loaded SharedLibrary is dlclosed exactly once (never twice; once
\* when its last owner is gone, and by the exit of the process at the
\* latest), and never while a thread is invoking an entry point through it:
\* a library evicted or overwritten in the cache during the invocation stays
\* open until the invoking call has returned.
C13_ReleasedOnceAfterUse ==
    /\ \A i \in 1..Len(heap) :
          /\ heap[i].dlcloses <= 1
          /\ heap[i].open <=> heap[i].dlcloses = 0
          /\ heap[i].open <=> heap[i].use_count > 0
          /\ heap[i].use_count >= 0
          /\ heap[i].open <=>
                \/ i \in Owned(libs)
                \/ \E t \in Threads : frame[t].func_lib = <<i>> \/ frame[t].lib = i
    /\ \A t \in Threads : Calling(t) => heap[frame[t].func_lib[1]].open
    /\ process = "exited" => \A i \in 1..Len(heap) : heap[i].dlcloses = 1

\* A thread is inside the entry point of library 1 while the cache has
\* already let go of it for the library another thread loaded.
C13_Witness ==
    /\ \E t \in Threads :
          /\ pc[t] = "invoked"
          /\ frame[t].func_lib = <<1>>
    /\ Len(heap) = 2
    /\ Owned(libs) = {2}
    /\ heap[1].open /\ heap[1].use_count = 1 /\ heap[1].dlcloses = 0
    /\ heap[2].open

\* Two calls of run_lib for the same identifier that both missed the cache.
SameMiss(t, u) ==
    /\ t # u
    /\ frame[t].op = "run_lib" /\ frame[u].op = "run_lib"
    /\ frame[t].func_name = frame[u].func_name
    /\ frame[t].missed /\ frame[u].missed

\* No call for another identifier ran while the call of t did.
Undisturbed(t) == frame[t].overlapped \subseteq {frame[t].func_name}

\* The entries of a cache under keys other than key.
OtherEntries(cache, key) ==
    {cache.items[i] : i \in {j \in 1..Len(cache.items) : cache.items[j][1] # key}}

C18_SecondLookupFinds ==
    \A t \in Threads :
        /\ (pc[t] = "call" /\ frame[t].missed) => frame[t].func_lib # <<>>
        /\ (pc[t] = "names_return" /\ frame[t].missed) => frame[t].func_name_opt # <<>>

=============================================================================
